---- MODULE Spec2Model ----
(***************************************************************************)
(* Episode state machines of the two Panda grasp environments:             *)
(*   envs/panda_grasp_env.py      (goal-dict "grasp" variant)              *)
(*   envs/panda_grasp_env_her.py  ("HER" variant)                          *)
(*                                                                         *)
(* Lengths are integers in millimetres.  A distance returned by            *)
(* get_distance is a fixed-point number with Scale ticks per millimetre    *)
(* (the square root is rounded up to the next tick).  Rewards are scaled   *)
(* by Metre, so that  -distance*10  is  -(ticks*10)  and the reward 1.0 is *)
(* Metre.  The physics backend and the robot controller are external: the  *)
(* poses they report are chosen nondeterministically from small sets.      *)
(***************************************************************************)
EXTENDS Integers, Sequences, FiniteSets, TLC

(* ------------------------------ bounds --------------------------------- *)
Scale == 10
MaxCalls == 4
MaxEpisodes == 3
MaxStepCountBound == 3
MaxRepeat == 3

Metre == 1000 * Scale

(* ------------------------- program constants --------------------------- *)
distance_to_grasp == 110
lift_distance == 40
anim_length == 100
fine_threshold == 25
flat_penalty == 10
success_bonus == 10000
block_cutoff == 800
effector_cutoff == 2500
\* controller commands are in thousandths (0.01 is 10, the gripper command
\* 1 is 1000)
delta_pos == 10
continuous_delta_pos == 1500
gripper_open == 1000
lift_delta == 5

(* ---------------------- poses the backend reports ---------------------- *)
\* x, y are offsets from the spawn of the target object, z is absolute
FixedTargetXY == <<700, 250>>
TableHeights == {640}
SampledXY == {<<700, 250>>, <<715, 270>>}

\* poses read after the tick of a step: <<gripper, target>>
TickScenes ==
    { << <<0, 0, 750>>,   <<0, 0, 640>> >>,
      << <<0, 0, 751>>,   <<0, 0, 640>> >>,
      << <<15, 20, 751>>, <<0, 0, 640>> >>,
      << <<20, 20, 751>>, <<0, 0, 640>> >>,
      << <<30, 20, 900>>, <<0, 0, 640>> >>,
      << <<20, 20, 750>>, <<0, 0, 640>> >>,
      << <<15, 20, 900>>, <<0, 0, 680>> >>,
      << <<0, 0, 2510>>,  <<0, 0, 810>> >> }

\* poses read after the grasp animation, and the heights the backend
\* reports during the lift: <<low, high, at>> is low before lift tick `at`
\* and high from it on
AnimScenes ==
    { << <<0, 0, 900>>,    <<0, 0, 810>>,
         [block |-> <<640, 810, 1>>, effector |-> <<751, 900, 1>>] >>,
      << <<0, 0, 900>>,    <<0, 0, 810>>,
         [block |-> <<640, 810, 37>>, effector |-> <<751, 900, 37>>] >>,
      << <<0, 0, 900>>,    <<0, 0, 810>>,
         [block |-> <<640, 810, 100>>, effector |-> <<751, 900, 100>>] >>,
      << <<0, 0, 790>>,    <<0, 0, 680>>,
         [block |-> <<640, 680, 50>>, effector |-> <<750, 790, 50>>] >>,
      << <<0, 0, 789>>,    <<0, 0, 679>>,
         [block |-> <<640, 679, 50>>, effector |-> <<750, 789, 50>>] >>,
      << <<0, 0, 910>>,    <<0, 0, 800>>,
         [block |-> <<640, 800, 10>>, effector |-> <<750, 2500, 20>>] >>,
      << <<20, 20, 2510>>, <<0, 0, 640>>,
         [block |-> <<640, 640, 1>>, effector |-> <<750, 2510, 37>>] >> }

NoTrajectory == [block |-> <<0, 0, 1>>, effector |-> <<0, 0, 1>>]

\* action indices passed to step() in discrete mode
DiscreteActions == {-8, -7, -1} \cup (0..7)
\* action vectors passed to step() in continuous mode, in thousandths
ContinuousActions ==
    { <<0, 0, 0, 0, 0, 0, 0>>, <<1000, -1000, 500, 0, 200, -1000, 0>> }
\* the action of the episode specification (the poses the backend reports
\* do not depend on the command)
EpisodeActions == {0}

\* poses of the gripper read after reset (offset from the spawn)
ResetGrippers == {<<30, 20, 900>>, <<0, 0, 751>>}

Pose(xy, z) == <<xy[1], xy[2], z>>
Place(origin, offset) ==
    <<origin[1] + offset[1], origin[2] + offset[2], offset[3]>>

(* ------------------------------ distances ------------------------------ *)
RECURSIVE SqrtSearch(_, _, _)
SqrtSearch(x, lo, hi) ==
    IF lo >= hi THEN lo
    ELSE LET mid == (lo + hi) \div 2
         IN  IF mid * mid >= x THEN SqrtSearch(x, lo, mid)
                               ELSE SqrtSearch(x, mid + 1, hi)

\* least k with k*k >= x
CeilSqrt(x) == SqrtSearch(x, 0, 32768)

get_distance(point_a, point_b, axis) ==
    LET d1 == Scale * (axis[1] * point_a[1] - axis[1] * point_b[1])
        d2 == Scale * (axis[2] * point_a[2] - axis[2] * point_b[2])
        d3 == Scale * (axis[3] * point_a[3] - axis[3] * point_b[3])
    IN  CeilSqrt(d1 * d1 + d2 * d2 + d3 * d3)

get_gripper_pos(obs) == obs.gripper
get_target_pos(obs) == obs.achieved_goal

get_horizontal_distance_to_target(obs) ==
    get_distance(get_gripper_pos(obs), get_target_pos(obs), <<1, 1, 0>>)
get_distance_to_target(obs) ==
    get_distance(get_gripper_pos(obs), get_target_pos(obs), <<1, 1, 1>>)
get_vertical_distance_to_target(obs) ==
    get_distance(get_gripper_pos(obs), get_target_pos(obs), <<0, 0, 1>>)

(* =================== grasp variant: panda_grasp_env.py ================= *)
VARIABLES max_step_count, reward_type, is_target_position_fixed,
          is_discrete, is_continuous_downward_enabled,
          action_repeat_amount,
          table_height, env_step_counter, attempted_grasp,
          is_successful_grasp, grasp_attempts_count,
          successful_grasp_count, episode_number, goal_position,
          observation, ret, hist

\* ret is what the last call handed back; hist is the history of the
\* calls: calls = step() calls that ran since the last reset(), done_at =
\* the first of them that returned done (0: none), spawn = the spawn
\* position of the episode, attempts = grasp_attempts_count at the last
\* reset(), stepped_after_done = some step() was called after a step()
\* of the same episode had returned done
gvars == <<max_step_count, reward_type, is_target_position_fixed,
           is_discrete, is_continuous_downward_enabled,
           action_repeat_amount,
           table_height, env_step_counter, attempted_grasp,
           is_successful_grasp, grasp_attempts_count,
           successful_grasp_count, episode_number, goal_position,
           observation, ret, hist>>

gconfig == <<max_step_count, reward_type, is_target_position_fixed,
             is_discrete, is_continuous_downward_enabled,
             action_repeat_amount, table_height>>

get_extended_observation_tracking(gripper, target_obj_pos, goal) ==
    [gripper |-> gripper, achieved_goal |-> target_obj_pos,
     desired_goal |-> <<target_obj_pos[1], target_obj_pos[2],
                        target_obj_pos[3] + lift_distance>>]

get_extended_observation(gripper, target_obj_pos, goal) ==
    [gripper |-> gripper, achieved_goal |-> target_obj_pos,
     desired_goal |-> goal]

_is_success_strict(attempted, object_position, goal) ==
    attempted /\ object_position[3] > goal[3]

_is_success_without_attempt(attempted, object_position, goal) ==
    object_position[3] >= goal[3]

_is_success(attempted, object_position, goal) ==
    IF attempted
    THEN (IF object_position[3] >= goal[3] THEN TRUE ELSE FALSE)
    ELSE FALSE

_termination_past_limit(successful, counter, limit, attempted) ==
    successful \/ counter > limit \/ attempted

_termination_no_limit(successful, counter, limit, attempted) ==
    successful \/ attempted

_termination_no_attempt(successful, counter, limit, attempted) ==
    successful \/ counter >= limit

_termination(successful, counter, limit, attempted) ==
    successful \/ counter >= limit \/ attempted

compute_reward_negative_sparse(rtype, attempted, obs, goal, info_is_success) ==
    IF rtype = "sparse"
    THEN (IF _is_success(attempted, obs.achieved_goal, goal)
          THEN 0 ELSE -Metre)
    ELSE LET horizontal_distance == get_horizontal_distance_to_target(obs)
             far == -(horizontal_distance * 10)
             reward == IF horizontal_distance <= fine_threshold * Scale
                       THEN -(get_distance_to_target(obs) * 10)
                       ELSE far - flat_penalty * Metre
         IN  IF info_is_success THEN reward + success_bonus * Metre
                                ELSE reward

compute_reward_horizontal_only(rtype, attempted, obs, goal, info_is_success) ==
    IF rtype = "sparse"
    THEN (IF _is_success(attempted, obs.achieved_goal, goal)
          THEN Metre ELSE 0)
    ELSE LET horizontal_distance == get_horizontal_distance_to_target(obs)
             far == -(horizontal_distance * 10)
             reward == IF horizontal_distance <= fine_threshold * Scale
                       THEN far
                       ELSE far - flat_penalty * Metre
         IN  IF info_is_success THEN reward + success_bonus * Metre
                                ELSE reward

compute_reward_full_distance(rtype, attempted, obs, goal, info_is_success) ==
    IF rtype = "sparse"
    THEN (IF _is_success(attempted, obs.achieved_goal, goal)
          THEN Metre ELSE 0)
    ELSE LET horizontal_distance == get_horizontal_distance_to_target(obs)
             far == -(get_distance_to_target(obs) * 10)
             reward == IF horizontal_distance <= fine_threshold * Scale
                       THEN -(get_distance_to_target(obs) * 10)
                       ELSE far - flat_penalty * Metre
         IN  IF info_is_success THEN reward + success_bonus * Metre
                                ELSE reward

compute_reward_strict_band(rtype, attempted, obs, goal, info_is_success) ==
    IF rtype = "sparse"
    THEN (IF _is_success(attempted, obs.achieved_goal, goal)
          THEN Metre ELSE 0)
    ELSE LET horizontal_distance == get_horizontal_distance_to_target(obs)
             far == -(horizontal_distance * 10)
             reward == IF horizontal_distance < fine_threshold * Scale
                       THEN -(get_distance_to_target(obs) * 10)
                       ELSE far - flat_penalty * Metre
         IN  IF info_is_success THEN reward + success_bonus * Metre
                                ELSE reward

compute_reward(rtype, attempted, obs, goal, info_is_success) ==
    IF rtype = "sparse"
    THEN (IF _is_success(attempted, obs.achieved_goal, goal)
          THEN Metre ELSE 0)
    ELSE LET horizontal_distance == get_horizontal_distance_to_target(obs)
             far == -(horizontal_distance * 10)
             reward == IF horizontal_distance <= fine_threshold * Scale
                       THEN -(get_distance_to_target(obs) * 10)
                       ELSE far - flat_penalty * Metre
         IN  IF info_is_success THEN reward + success_bonus * Metre
                                ELSE reward

\* heights read by lift_gripper after lift tick i
BlockHeight(traj, i) ==
    IF i >= traj.block[3] THEN traj.block[2] ELSE traj.block[1]
EffectorHeight(traj, i) ==
    IF i >= traj.effector[3] THEN traj.effector[2] ELSE traj.effector[1]

\* close_fingers: the commands applied, one physics tick after each
RECURSIVE close_loop(_, _, _, _)
close_loop(i, length, finger_angle, commands) ==
    IF i >= length THEN commands
    ELSE LET lowered == finger_angle - gripper_open \div length
             next == IF lowered < 0 THEN 0 ELSE lowered
         IN  close_loop(i + 1, length, next,
                        Append(commands,
                               <<0, 0, 0, 0, 0, 0, finger_angle>>))

close_fingers_lowered_first(length) ==
    close_loop(0, length, gripper_open - gripper_open \div length, <<>>)

close_fingers(length) == close_loop(0, length, gripper_open, <<>>)

lift_break_block_only(traj, i) ==
    BlockHeight(traj, i) > block_cutoff

\* the break tests of lift_gripper on the heights read after lift tick i:
\* the block or the end effector is above its cutoff
lift_break(traj, i) ==
    \/ BlockHeight(traj, i) > block_cutoff
    \/ EffectorHeight(traj, i) > effector_cutoff

\* the for-loop of lift_gripper: it is left at the first tick whose break
\* test holds, and runs all `length` ticks when none does
lift_gripper(length, traj) ==
    LET stops == {i \in 1..length : lift_break(traj, i)}
    IN  IF stops = {} THEN length
        ELSE CHOOSE i \in stops : \A j \in stops : i <= j

lift_command == <<0, 0, lift_delta, 0, 0, 0, 0>>

\* the closing phase of perform_grasp (it does not depend on the backend)
closing_commands == close_fingers(anim_length)

\* the lift phase of perform_grasp for each course of heights the backend
\* can report
Trajectories == {s[3] : s \in AnimScenes} \cup {NoTrajectory}
lift_ticks_of == [traj \in Trajectories |-> lift_gripper(anim_length, traj)]

perform_grasp_lift_first(traj) ==
    LET lifted == lift_ticks_of[traj]
    IN  [commands |-> [i \in 1..lifted |-> lift_command]
                         \o closing_commands,
         close_ticks |-> Len(closing_commands), lift_ticks |-> lifted,
         flag_after |-> Len(closing_commands) + lifted]

\* perform_grasp: the commands of the closing phase followed by those of
\* the lift phase; flag_after is the number of animation ticks run when
\* attempted_grasp is assigned
perform_grasp(traj) ==
    LET lifted == lift_ticks_of[traj]
    IN  [commands |-> closing_commands
                         \o [i \in 1..lifted |-> lift_command],
         close_ticks |-> Len(closing_commands), lift_ticks |-> lifted,
         flag_after |-> Len(closing_commands) + lifted]

grasp_triggered_strict(distance) == distance < distance_to_grasp * Scale

\* the grasp is triggered by the vertical distance read after the tick
grasp_triggered(distance) == distance <= distance_to_grasp * Scale

grasp_flag_recomputed(grasp, attempted) == grasp

\* perform_grasp sets the flag, a step without a grasp leaves it
grasp_flag_after_step(grasp, attempted) ==
    IF grasp THEN TRUE ELSE attempted

\* spawn of the target object and the goal derived from it
SpawnXY(fixed) == IF fixed THEN {FixedTargetXY} ELSE SampledXY

\* what a call hands back: the return value of step() with the record of
\* what the call did (op "raise": the call raised and returned nothing)
NoReturn(op, action) ==
    [op |-> op, action |-> action, command |-> <<>>, reward |-> 0,
     done |-> FALSE, is_success |-> FALSE, distance |-> 0,
     agent_ticks |-> 0, close_ticks |-> 0, lift_ticks |-> 0,
     flag_after |-> 0, anim |-> <<>>, traj |-> NoTrajectory]

ResetTo_keeping_flag(xy, gripper) ==
    LET spawn == Pose(xy, table_height)
        goal == <<spawn[1], spawn[2], spawn[3] + lift_distance>>
    IN  /\ is_successful_grasp' = FALSE
        /\ UNCHANGED attempted_grasp
        /\ env_step_counter' = 0
        /\ goal_position' = goal
        /\ observation' = get_extended_observation(Place(spawn, gripper),
                                                    spawn, goal)
        /\ ret' = NoReturn("reset", 0)
        /\ hist' = [calls |-> 0, done_at |-> 0, spawn |-> spawn,
                    attempts |-> grasp_attempts_count,
                    stepped_after_done |-> hist.stepped_after_done]

\* the episode fields reset() assigns (lines 96-99, 123/129, 135)
ResetTo(xy, gripper) ==
    LET spawn == Pose(xy, table_height)
        goal == <<spawn[1], spawn[2], spawn[3] + lift_distance>>
    IN  /\ is_successful_grasp' = FALSE
        /\ attempted_grasp' = FALSE
        /\ env_step_counter' = 0
        /\ goal_position' = goal
        /\ observation' = get_extended_observation(Place(spawn, gripper),
                                                    spawn, goal)
        /\ ret' = NoReturn("reset", 0)
        /\ hist' = [calls |-> 0, done_at |-> 0, spawn |-> spawn,
                    attempts |-> grasp_attempts_count,
                    stepped_after_done |-> hist.stepped_after_done]

GInit ==
    /\ max_step_count \in 0..MaxStepCountBound
    /\ reward_type \in {"dense", "sparse"}
    /\ is_target_position_fixed \in BOOLEAN
    /\ is_discrete \in BOOLEAN
    /\ is_continuous_downward_enabled \in BOOLEAN
    /\ action_repeat_amount \in 1..MaxRepeat
    /\ table_height \in TableHeights
    /\ episode_number = 1
    /\ grasp_attempts_count = 0
    /\ successful_grasp_count = 0
    /\ is_successful_grasp = FALSE
    /\ attempted_grasp = FALSE
    /\ env_step_counter = 0
    /\ \E xy \in SpawnXY(is_target_position_fixed), g \in ResetGrippers :
         LET spawn == Pose(xy, table_height)
             goal == <<spawn[1], spawn[2], spawn[3] + lift_distance>>
         IN  /\ goal_position = goal
             /\ observation =
                  get_extended_observation(Place(spawn, g), spawn, goal)
             /\ hist = [calls |-> 0, done_at |-> 0, spawn |-> spawn,
                        attempts |-> 0, stepped_after_done |-> FALSE]
    /\ ret = NoReturn("reset", 0)

reset_clearing_counters ==
    /\ \E xy \in SpawnXY(is_target_position_fixed), g \in ResetGrippers :
         ResetTo(xy, g)
    /\ episode_number' = 1
    /\ grasp_attempts_count' = 0
    /\ UNCHANGED <<gconfig, successful_grasp_count>>

\* reset() starts a new episode; the lifetime counters are not touched
reset ==
    /\ \E xy \in SpawnXY(is_target_position_fixed), g \in ResetGrippers :
         ResetTo(xy, g)
    /\ UNCHANGED <<gconfig, grasp_attempts_count, successful_grasp_count,
                   episode_number>>

\* Python list subscript: 0-based, a negative index counts from the end,
\* anything else raises IndexError
py_in_range(list, i) == i < Len(list) /\ i >= -Len(list)
py_item(list, i) ==
    IF i >= 0 THEN list[i + 1] ELSE list[Len(list) + i + 1]

dx_table == <<0, -delta_pos, delta_pos, 0, 0, 0, 0>>
dy_table == <<0, 0, 0, -delta_pos, delta_pos, 0, 0>>
dz_table_swapped == <<0, 0, 0, 0, 0, delta_pos, -delta_pos>>

dz_table == <<0, 0, 0, 0, 0, -delta_pos, delta_pos>>

\* step() in discrete mode raises at the first subscript out of range
discrete_raises(action, downward) ==
    \/ ~py_in_range(dx_table, action)
    \/ ~py_in_range(dy_table, action)
    \/ (~downward /\ ~py_in_range(dz_table, action))

discrete_action(action, downward) ==
    LET dx == py_item(dx_table, action)
        dy == py_item(dy_table, action)
        dz == IF downward THEN -delta_pos ELSE py_item(dz_table, action)
    IN  <<dx, dy, dz, 0, 0, 0, gripper_open>>

continuous_action(action) ==
    LET scaled(a) == (a * continuous_delta_pos) \div 1000
    IN  <<scaled(action[1]), scaled(action[2]), scaled(action[3]),
          scaled(action[4]), scaled(action[5]), scaled(action[6]),
          gripper_open>>

agent_ticks_repeated(repeat) == repeat

\* real_step applies the command once and runs one physics tick, whatever
\* action_repeat_amount is
agent_ticks(repeat) == 1

\* real_step with the poses read after the tick (g1, t1), and, when the
\* grasp runs, the poses read after the animation (g2, t2) and the heights
\* reported during the lift
real_step(action, real_action, g1, t1, g2, t2, traj) ==
    LET counter == env_step_counter + 1
        obs1 == get_extended_observation(g1, t1, goal_position)
        distance == get_vertical_distance_to_target(obs1)
        grasp == grasp_triggered(distance)
        animation == perform_grasp(traj)
        obs2 == IF grasp
                THEN get_extended_observation(g2, t2, goal_position)
                ELSE obs1
        attempted == grasp_flag_after_step(grasp, attempted_grasp)
        is_success == _is_success(attempted, obs2.achieved_goal,
                                  obs2.desired_goal)
        successful == IF is_success THEN TRUE ELSE is_successful_grasp
        reward == compute_reward(reward_type, attempted, obs2,
                                 goal_position, is_success)
        done == _termination(successful, counter, max_step_count,
                             attempted)
    IN  /\ env_step_counter' = counter
        /\ observation' = obs2
        /\ grasp_attempts_count' =
              IF grasp THEN grasp_attempts_count + 1
                       ELSE grasp_attempts_count
        /\ attempted_grasp' = attempted
        /\ is_successful_grasp' = successful
        /\ successful_grasp_count' =
              IF is_success THEN successful_grasp_count + 1
                            ELSE successful_grasp_count
        /\ episode_number' =
              IF done THEN episode_number + 1 ELSE episode_number
        /\ ret' = [op |-> "step", action |-> action,
                   command |-> real_action,
                   reward |-> reward, done |-> done,
                   is_success |-> is_success, distance |-> distance,
                   agent_ticks |-> agent_ticks(action_repeat_amount),
                   close_ticks |-> IF grasp THEN animation.close_ticks
                                            ELSE 0,
                   lift_ticks |-> IF grasp THEN animation.lift_ticks
                                           ELSE 0,
                   flag_after |-> IF grasp THEN animation.flag_after
                                           ELSE 0,
                   anim |-> IF grasp THEN animation.commands ELSE <<>>,
                   traj |-> IF grasp THEN traj ELSE NoTrajectory]
        /\ hist' = [hist EXCEPT
                      !.calls = hist.calls + 1,
                      !.done_at = IF hist.done_at = 0 /\ done
                                  THEN hist.calls + 1 ELSE hist.done_at,
                      !.stepped_after_done =
                            hist.stepped_after_done \/ hist.done_at # 0]
        /\ UNCHANGED <<gconfig, goal_position>>

\* the target pose read after the animation is the block pose read after
\* the last lift tick
LiftOutcome(t2, traj) ==
    t2[3] = BlockHeight(traj, lift_ticks_of[traj])

\* step(action): the command is built first; a subscript out of range
\* raises before anything else happens
step(actions, tick_scenes, anim_scenes) ==
    /\ env_step_counter < MaxCalls
    /\ episode_number < MaxEpisodes
    /\ \E action \in actions :
         IF is_discrete /\ discrete_raises(action,
                                           is_continuous_downward_enabled)
         THEN /\ ret' = NoReturn("raise", action)
              /\ UNCHANGED <<gconfig, env_step_counter, attempted_grasp,
                             is_successful_grasp, grasp_attempts_count,
                             successful_grasp_count, episode_number,
                             goal_position, observation, hist>>
         ELSE LET real_action ==
                    IF is_discrete
                    THEN discrete_action(action,
                                         is_continuous_downward_enabled)
                    ELSE continuous_action(action)
              IN  \E s1 \in tick_scenes :
                    LET g1 == Place(goal_position, s1[1])
                        t1 == Place(goal_position, s1[2])
                    IN  IF grasp_triggered(
                               get_distance(g1, t1, <<0, 0, 1>>))
                        THEN \E s2 \in anim_scenes :
                               /\ LiftOutcome(s2[2], s2[3])
                               /\ real_step(action, real_action, g1, t1,
                                      Place(goal_position, s2[1]),
                                      Place(goal_position, s2[2]), s2[3])
                        ELSE real_step(action, real_action, g1, t1,
                                       g1, t1, NoTrajectory)

(* ================= HER variant: panda_grasp_env_her.py ================= *)
VARIABLES her_action_repeat_amount, her_max_step_count,
          her_env_step_counter, her_attempted_grasp, her_successful_grasp,
          her_grasp_attempts_count, her_successful_grasp_count,
          her_episode_number, her_observation, her_ret

hvars == <<her_action_repeat_amount, her_max_step_count,
           her_env_step_counter, her_attempted_grasp, her_successful_grasp,
           her_grasp_attempts_count, her_successful_grasp_count,
           her_episode_number, her_observation, her_ret>>

hconfig == <<her_action_repeat_amount, her_max_step_count>>

her_distance_to_grasp == 110
her_target_object_height == 700
her_fine_threshold == 30
her_flat_penalty == 500
her_success_reward == 1000000
\* rewards of this variant are scaled by HerUnit (-distance*100 is -ticks)
HerUnit == 10 * Scale
HerOrigin == <<700, 250, 640>>

her_observation_type_array == "ndarray"

\* get_extended_observation returns an OrderedDict
her_observation_type == "OrderedDict"

\* np.asarray of a number: an array of shape () holding the number
np_asarray_scalar(x) == [shape |-> <<>>, item |-> x]

her_get_extended_observation_position(gripper, target_obj_pos) ==
    [type |-> her_observation_type, gripper |-> gripper,
     target |-> target_obj_pos,
     achieved_goal |-> [shape |-> <<3>>, item |-> target_obj_pos],
     desired_goal |-> np_asarray_scalar(her_target_object_height)]

her_get_extended_observation(gripper, target_obj_pos) ==
    [type |-> her_observation_type, gripper |-> gripper,
     target |-> target_obj_pos,
     achieved_goal |-> np_asarray_scalar(target_obj_pos[3]),
     desired_goal |-> np_asarray_scalar(her_target_object_height)]

\* self._observation[0:3] and self._observation[7:10]: a slice is not a key
\* of a dict, so the subscript raises unless the observation is an array
her_slice_raises(obs) == obs.type # "ndarray"

her_termination_past_limit(attempted, counter, limit) ==
    attempted \/ counter > limit

her_termination(attempted, counter, limit) ==
    attempted \/ counter >= limit

\* the action-repeat loop of real_step: the counter after `left` more
\* iterations (the attempted flag does not change inside the loop)
RECURSIVE her_repeat(_, _, _, _)
her_repeat(left, counter, attempted, limit) ==
    IF left = 0 THEN counter
    ELSE IF her_termination(attempted, counter, limit) THEN counter
    ELSE her_repeat(left - 1, counter + 1, attempted, limit)

\* _compute_reward: <<reward, success reached>>
her_compute_reward(obs) ==
    IF obs.target[3] > her_target_object_height
    THEN <<her_success_reward * HerUnit, TRUE>>
    ELSE LET horizontal_distance ==
                 get_distance(obs.gripper, obs.target, <<1, 1, 0>>)
             far == -horizontal_distance
         IN  IF horizontal_distance <= her_fine_threshold * Scale
             THEN <<-get_distance(obs.gripper, obs.target, <<1, 1, 1>>),
                    FALSE>>
             ELSE <<far - her_flat_penalty * HerUnit, FALSE>>

HerNoReturn(op, raised) ==
    [op |-> op, raised |-> raised, reward |-> 0, done |-> FALSE,
     is_success |-> FALSE]

HInit ==
    /\ her_action_repeat_amount \in 1..MaxRepeat
    /\ her_max_step_count \in 0..MaxStepCountBound
    /\ her_env_step_counter = 0
    /\ her_attempted_grasp = FALSE
    /\ her_successful_grasp = FALSE
    /\ her_grasp_attempts_count = 0
    /\ her_successful_grasp_count = 0
    /\ her_episode_number = 1
    /\ \E g \in ResetGrippers :
         her_observation =
            her_get_extended_observation(Place(HerOrigin, g), HerOrigin)
    /\ her_ret = HerNoReturn("reset", FALSE)

her_reset ==
    /\ her_successful_grasp' = FALSE
    /\ her_attempted_grasp' = FALSE
    /\ her_env_step_counter' = 0
    /\ \E g \in ResetGrippers :
         her_observation' =
            her_get_extended_observation(Place(HerOrigin, g), HerOrigin)
    /\ her_ret' = HerNoReturn("reset", FALSE)
    /\ UNCHANGED <<hconfig, her_grasp_attempts_count,
                   her_successful_grasp_count, her_episode_number>>

her_real_step(g1, t1, g2, t2) ==
    LET counter == her_repeat(her_action_repeat_amount,
                              her_env_step_counter, her_attempted_grasp,
                              her_max_step_count)
        obs1 == her_get_extended_observation(g1, t1)
    IN  /\ her_env_step_counter' = counter
        /\ IF her_slice_raises(obs1)
           THEN \* get_distance_to_target raises: nothing after it runs
                /\ her_observation' = obs1
                /\ her_ret' = HerNoReturn("step", TRUE)
                /\ UNCHANGED <<her_attempted_grasp, her_successful_grasp,
                               her_grasp_attempts_count,
                               her_successful_grasp_count,
                               her_episode_number>>
           ELSE LET distance == get_distance(g1, t1, <<1, 1, 1>>)
                    grasp == distance <= her_distance_to_grasp * Scale
                    obs2 == IF grasp
                            THEN her_get_extended_observation(g2, t2)
                            ELSE obs1
                    attempted == IF grasp THEN TRUE
                                          ELSE her_attempted_grasp
                    rew == her_compute_reward(obs2)
                    successful == IF rew[2] THEN TRUE
                                            ELSE her_successful_grasp
                    done == her_termination(attempted, counter,
                                            her_max_step_count)
                IN  /\ her_observation' = obs2
                    /\ her_grasp_attempts_count' =
                          IF grasp THEN her_grasp_attempts_count + 1
                                   ELSE her_grasp_attempts_count
                    /\ her_attempted_grasp' = attempted
                    /\ her_successful_grasp' = successful
                    /\ her_successful_grasp_count' =
                          IF rew[2] THEN her_successful_grasp_count + 1
                                    ELSE her_successful_grasp_count
                    /\ her_episode_number' =
                          IF done THEN her_episode_number + 1
                                  ELSE her_episode_number
                    /\ her_ret' = [op |-> "step", raised |-> FALSE,
                                   reward |-> rew[1], done |-> done,
                                   is_success |-> successful]
        /\ UNCHANGED hconfig

her_step ==
    /\ her_episode_number < MaxEpisodes
    /\ \E s1 \in TickScenes, s2 \in AnimScenes :
         her_real_step(Place(HerOrigin, s1[1]), Place(HerOrigin, s1[2]),
                       Place(HerOrigin, s2[1]), Place(HerOrigin, s2[2]))

(* ========================== the two environments ======================= *)
VARIABLE variant

vars == <<variant, gvars, hvars>>

\* the environment that is not under test stays as constructed
GIdle ==
    /\ max_step_count = 0
    /\ reward_type = "dense"
    /\ is_target_position_fixed = TRUE
    /\ is_discrete = TRUE
    /\ is_continuous_downward_enabled = FALSE
    /\ action_repeat_amount = 1
    /\ table_height = 640
    /\ episode_number = 1
    /\ grasp_attempts_count = 0
    /\ successful_grasp_count = 0
    /\ is_successful_grasp = FALSE
    /\ attempted_grasp = FALSE
    /\ env_step_counter = 0
    /\ goal_position = <<700, 250, 680>>
    /\ observation = get_extended_observation(<<700, 250, 751>>,
                         <<700, 250, 640>>, <<700, 250, 680>>)
    /\ ret = NoReturn("reset", 0)
    /\ hist = [calls |-> 0, done_at |-> 0, spawn |-> <<700, 250, 640>>,
               attempts |-> 0, stepped_after_done |-> FALSE]

HIdle ==
    /\ her_action_repeat_amount = 1
    /\ her_max_step_count = 0
    /\ her_env_step_counter = 0
    /\ her_attempted_grasp = FALSE
    /\ her_successful_grasp = FALSE
    /\ her_grasp_attempts_count = 0
    /\ her_successful_grasp_count = 0
    /\ her_episode_number = 1
    /\ her_observation =
          her_get_extended_observation(<<700, 250, 751>>, HerOrigin)
    /\ her_ret = HerNoReturn("reset", FALSE)

\* configuration of the episode specification: discrete actions, no
\* continuous downward motion
EpisodeConfig ==
    /\ is_discrete
    /\ ~is_continuous_downward_enabled
    /\ action_repeat_amount = 1

Init ==
    \/ variant = "grasp" /\ GInit /\ EpisodeConfig /\ HIdle
    \/ variant = "her" /\ HInit /\ GIdle

GraspReset == variant = "grasp" /\ reset /\ UNCHANGED <<variant, hvars>>
GraspStep ==
    /\ variant = "grasp"
    /\ step(EpisodeActions, TickScenes, AnimScenes)
    /\ UNCHANGED <<variant, hvars>>
HerReset == variant = "her" /\ her_reset /\ UNCHANGED <<variant, gvars>>
HerStep == variant = "her" /\ her_step /\ UNCHANGED <<variant, gvars>>

Next == GraspReset \/ GraspStep \/ HerReset \/ HerStep

Spec == Init /\ [][Next]_vars

(* ------- the inputs of step(): every action, mode and repeat count ------ *)
InputsConfig ==
    /\ max_step_count = MaxStepCountBound
    /\ reward_type = "dense"
    /\ is_target_position_fixed

\* the poses do not depend on the command: one step that triggers the
\* grasp and one that does not, one lift that is cut short and one that is
\* not
InputTickScenes ==
    { s \in TickScenes : s[1] \in {<<0, 0, 750>>, <<20, 20, 751>>} }
InputAnimScenes ==
    { s \in AnimScenes : s[3].block[3] \in {37, 50} /\ s[2][3] >= 680 }

InitInputs == variant = "grasp" /\ GInit /\ InputsConfig /\ HIdle

GraspStepInputs ==
    /\ variant = "grasp"
    /\ step(IF is_discrete THEN DiscreteActions ELSE ContinuousActions,
            InputTickScenes, InputAnimScenes)
    /\ UNCHANGED <<variant, hvars>>

NextInputs == GraspReset \/ GraspStepInputs

SpecInputs == InitInputs /\ [][NextInputs]_vars

(* ============================== properties ============================= *)
GraspStepped == variant = "grasp" /\ ret.op = "step"
TriggerRadius == distance_to_grasp * Scale
FineBand == fine_threshold * Scale

\* C1: grasp variant - a step() that returns done = false leaves
\* step_counter strictly below max_step_count
C1_NotDoneBelowLimit ==
    (GraspStepped /\ ~ret.done) => env_step_counter < max_step_count

C1_Witness ==
    /\ GraspStepped /\ ~ret.done
    /\ env_step_counter >= 1
    /\ env_step_counter + 1 = max_step_count

\* C2: grasp variant - for max_step_count >= 1, done = true is returned no
\* later than the max_step_count-th step() call after a reset()
C2_DoneWithinLimit ==
    (variant = "grasp" /\ max_step_count >= 1
        /\ hist.calls >= max_step_count)
    => (hist.done_at >= 1 /\ hist.done_at <= max_step_count)

C2_Witness ==
    /\ variant = "grasp" /\ max_step_count >= 2
    /\ hist.calls = max_step_count
    /\ hist.done_at = max_step_count
    /\ ~attempted_grasp

\* C3: once attempted_grasp is true, every further step() leaves it true
\* and only reset() sets it back to false
C3_AttemptedMonotonic ==
    [][(variant = "grasp" /\ attempted_grasp)
         => /\ ret'.op = "step" => attempted_grasp'
            /\ ~attempted_grasp' => ret'.op = "reset"]_vars

C3_Witness ==
    /\ GraspStepped /\ attempted_grasp
    /\ ret.close_ticks = 0
    /\ hist.calls > hist.done_at /\ hist.done_at >= 1

\* C4: grasp variant - a step() of an episode that has not returned done
\* before returns done = false exactly when the distance read after the
\* tick is above the trigger radius and the incremented step_counter is
\* below max_step_count; while no step came within the radius, done is
\* true exactly from step max_step_count on and is_success is false
C4_RunningIffFarAndBelowLimit ==
    /\ (GraspStepped /\ (hist.done_at = 0 \/ hist.done_at = hist.calls))
       => (~ret.done <=> (ret.distance > TriggerRadius
                            /\ env_step_counter < max_step_count))
    /\ (GraspStepped /\ ~attempted_grasp)
       => /\ ~ret.is_success
          /\ ret.done <=> hist.calls >= max_step_count

C4_Witness ==
    /\ GraspStepped /\ ~ret.done
    /\ ret.distance = TriggerRadius + Scale
    /\ hist.done_at = 0
    /\ hist.calls = 2

\* C5: grasp variant - a step() whose distance read after the tick is
\* <= 0.11 runs the whole grasp animation, adds exactly 1 to
\* grasp_attempts_count, sets attempted_grasp and returns done = true; a
\* step() with a larger distance runs no animation and leaves
\* grasp_attempts_count and attempted_grasp unchanged
C5_GraspOnProximity ==
    [][(variant = "grasp" /\ ret'.op = "step")
         => IF ret'.distance <= TriggerRadius
            THEN /\ ret'.close_ticks = anim_length
                 /\ ret'.lift_ticks >= 1 /\ ret'.lift_ticks <= anim_length
                 /\ grasp_attempts_count' = grasp_attempts_count + 1
                 /\ attempted_grasp'
                 /\ ret'.done
            ELSE /\ ret'.close_ticks = 0 /\ ret'.lift_ticks = 0
                 /\ grasp_attempts_count' = grasp_attempts_count
                 /\ attempted_grasp' = attempted_grasp]_vars

C5_Witness ==
    /\ GraspStepped
    /\ ret.distance = TriggerRadius
    /\ ret.close_ticks = anim_length
    /\ attempted_grasp /\ ret.done
    /\ grasp_attempts_count = 1

\* C6: grasp variant - info.is_success of a step() is true exactly when
\* attempted_grasp is true and the target height of the returned
\* observation is >= the goal height; it is false while no grasp has been
\* attempted in the episode
C6_SuccessPredicate ==
    GraspStepped
    => /\ ret.is_success <=>
            (attempted_grasp /\ observation.achieved_goal[3]
                                  >= observation.desired_goal[3])
       /\ ~attempted_grasp => ~ret.is_success

C6_Witness ==
    /\ GraspStepped /\ ret.is_success
    /\ observation.achieved_goal[3] = observation.desired_goal[3]

C8_SparseReward ==
    (GraspStepped /\ reward_type = "sparse")
    => /\ ret.reward \in {0, Metre}
       /\ ret.reward = Metre <=> ret.is_success

C8_Witness ==
    GraspStepped /\ reward_type = "sparse" /\ ret.reward = Metre

\* C9: grasp variant, dense reward - a step() that triggers no grasp and
\* whose is_success is false returns a strictly negative reward
C9_DenseNegative ==
    (GraspStepped /\ reward_type = "dense"
        /\ ret.distance > TriggerRadius /\ ~ret.is_success)
    => ret.reward < 0

C9_Witness ==
    /\ GraspStepped /\ reward_type = "dense"
    /\ ret.distance > TriggerRadius /\ ~ret.is_success
    /\ get_horizontal_distance_to_target(observation) = 0
    /\ ret.reward < 0

\* observations of the poses the backend can report for the current goal
SceneObservations ==
    { get_extended_observation(Place(goal_position, s[1]),
                               Place(goal_position, s[2]), goal_position)
        : s \in TickScenes \cup AnimScenes }

FartherScenes ==
    { o \in SceneObservations :
        get_horizontal_distance_to_target(o)
           > get_horizontal_distance_to_target(observation) }

DiscreteStepped == variant = "grasp" /\ is_discrete /\ ret.op = "step"

\* the command table as the specification states it, in thousandths
ExpectedMove(i, minus, plus) ==
    IF i = minus THEN -delta_pos ELSE IF i = plus THEN delta_pos ELSE 0
ExpectedCommand(i, downward) ==
    << ExpectedMove(i, 1, 2), ExpectedMove(i, 3, 4),
       IF downward THEN -delta_pos ELSE ExpectedMove(i, 5, 6),
       0, 0, 0, gripper_open >>

\* C11: grasp variant, discrete mode - in every state of every episode the
\* command built for an index in 0..6 is the one the table gives for that
\* index and the continuous-downward flag: index 0 no move, 1/2 x by
\* -0.01/+0.01, 3/4 y, 5/6 z, rotations 0, gripper 1, and dz = -0.01 for
\* every index when the flag is set
C11_DiscreteCommandTable ==
    (DiscreteStepped /\ ret.action \in 0..6) =>
        /\ Len(ret.command) = 7
        /\ ret.command =
             ExpectedCommand(ret.action, is_continuous_downward_enabled)

C11_Witness ==
    /\ DiscreteStepped
    /\ is_continuous_downward_enabled
    /\ ret.action = 6
    /\ ret.command = <<0, 0, -delta_pos, 0, 0, 0, gripper_open>>
    /\ episode_number >= 2
    /\ hist.calls >= 2

\* C12: grasp variant, discrete mode - a step() with an index outside 0..6
\* (negative ones included) raises at once: it is mapped to no command,
\* and step_counter, attempted_grasp, the counters and the observation are
\* left as they were
C12_OutOfRangeRaises ==
    [][ (/\ variant = "grasp"
         /\ is_discrete
         /\ ret'.op \in {"step", "raise"}
         /\ ret'.action \notin 0..6)
        => (/\ ret'.op = "raise"
            /\ ret'.command = <<>>
            /\ ret'.agent_ticks = 0
            /\ UNCHANGED <<env_step_counter, attempted_grasp,
                           is_successful_grasp, grasp_attempts_count,
                           successful_grasp_count, episode_number,
                           goal_position, observation>>) ]_vars

\* C13: over any interleaving of reset() and step(), episode_number and
\* grasp_attempts_count never decrease, and reset() leaves both as they
\* were (it never sets them back to zero or to their initial values)
C13_CountersPersist ==
    [][ variant = "grasp" =>
          /\ episode_number' >= episode_number
          /\ grasp_attempts_count' >= grasp_attempts_count
          /\ (ret'.op = "reset" =>
                UNCHANGED <<episode_number, grasp_attempts_count>>) ]_vars

C13_Witness ==
    /\ variant = "grasp"
    /\ ret.op = "reset"
    /\ grasp_attempts_count = 2
    /\ episode_number = 3
    /\ env_step_counter = 0

\* C14: grasp variant - in every state of an episode (after reset() and
\* after every step(), fixed and sampled spawn alike) the goal, and the
\* desired_goal of the observation, is the spawn position of the target
\* with z raised by the lift distance 0.04; a step never changes it, even
\* when the target has moved
C14_GoalIsLiftedSpawn ==
    variant = "grasp" =>
        /\ goal_position = <<hist.spawn[1], hist.spawn[2],
                             hist.spawn[3] + lift_distance>>
        /\ observation.desired_goal = goal_position

C14_Witness ==
    /\ GraspStepped
    /\ ~is_target_position_fixed
    /\ attempted_grasp
    /\ observation.achieved_goal[3] > hist.spawn[3] + lift_distance
    /\ observation.desired_goal =
          <<hist.spawn[1], hist.spawn[2], hist.spawn[3] + lift_distance>>
    /\ hist.calls >= 2

\* C15: in each variant the observation built by reset() and by every
\* step() has achieved_goal and desired_goal of the same shape: both
\* 3-vectors in the grasp variant, both scalars (the target height and the
\* height threshold) in the HER variant
C15_GoalShapesAgree ==
    /\ variant = "grasp" =>
          /\ Len(observation.achieved_goal) = 3
          /\ Len(observation.desired_goal) = 3
    /\ variant = "her" =>
          /\ her_observation.achieved_goal.shape = <<>>
          /\ her_observation.desired_goal.shape = <<>>
          /\ her_observation.achieved_goal.item = her_observation.target[3]
          /\ her_observation.desired_goal.item = her_target_object_height

C15_Witness ==
    /\ variant = "her"
    /\ her_ret.op = "step"
    /\ her_observation.target[3] # HerOrigin[3]
    /\ her_observation.achieved_goal =
          [shape |-> <<>>, item |-> her_observation.target[3]]
    /\ her_observation.desired_goal.shape =
          her_observation.achieved_goal.shape

\* a step during which the grasp animation ran
GraspRan == GraspStepped /\ ret.anim # <<>>

IsClosingCommand(c) ==
    /\ \A k \in 1..6 : c[k] = 0
    /\ c[7] \in 0..gripper_open

\* C16: every run of perform_grasp issues exactly 100 closing ticks, then
\* between 1 and 100 lift ticks, no lift command before the last closing
\* tick, at most 200 ticks in all; attempted_grasp is set after the final
\* lift tick, and success is evaluated on the heights read after it
C16_AnimationSequence ==
    GraspRan =>
        /\ ret.close_ticks = 100
        /\ ret.lift_ticks \in 1..100
        /\ Len(ret.anim) = ret.close_ticks + ret.lift_ticks
        /\ Len(ret.anim) <= 200
        /\ \A k \in 1..Len(ret.anim) :
              IF k <= ret.close_ticks
              THEN IsClosingCommand(ret.anim[k]) /\ ret.anim[k] # lift_command
              ELSE ret.anim[k] = lift_command
        /\ ret.flag_after = Len(ret.anim)
        /\ attempted_grasp
        /\ observation.achieved_goal[3] =
              BlockHeight(ret.traj, ret.lift_ticks)
        /\ ret.is_success =
              (BlockHeight(ret.traj, ret.lift_ticks) >= goal_position[3])

C16_Witness ==
    /\ GraspRan
    /\ ret.close_ticks = 100
    /\ ret.lift_ticks = 37
    /\ ret.anim[100][7] > 0
    /\ ret.anim[101] = lift_command
    /\ attempted_grasp
    /\ ret.is_success

\* the finger command applied on closing tick k
FingerCommand(k) == ret.anim[k][7]
RampStep == gripper_open \div anim_length

\* the ramp of the closing phase up to its last tick
ClosingRamp ==
    /\ FingerCommand(1) = gripper_open
    /\ \A k \in 2..ret.close_ticks :
          FingerCommand(k) = FingerCommand(k - 1) - RampStep
    /\ \A k \in 1..ret.close_ticks : FingerCommand(k) \in 0..gripper_open

\* C17, as stated: the finger command of the closing phase starts at 1,
\* falls by 1/anim_length per tick, stays within 0..1, and the command
\* applied on the last closing tick is 0
C17_RampEndsAtZero ==
    GraspRan => (ClosingRamp /\ FingerCommand(ret.close_ticks) = 0)

\* C17, amended: the finger command of the closing phase starts at 1,
\* falls by 1/anim_length per tick and stays within 0..1; the command
\* applied on the last closing tick is 1/anim_length (0.01), and 0 is first
\* applied by the lift commands that follow
C17_RampEndsOneStepAboveZero ==
    GraspRan =>
        /\ ClosingRamp
        /\ FingerCommand(ret.close_ticks) = RampStep
        /\ \A k \in 1..ret.close_ticks : FingerCommand(k) > 0
        /\ FingerCommand(ret.close_ticks + 1) = 0

C17_Witness ==
    /\ GraspRan
    /\ FingerCommand(1) = 1000
    /\ FingerCommand(2) = 990
    /\ FingerCommand(99) = 20
    /\ FingerCommand(100) = 10
    /\ ret.close_ticks = 100

\* a cutoff is exceeded on the heights read after lift tick i
CutoffExceeded(traj, i) ==
    \/ BlockHeight(traj, i) > 800
    \/ EffectorHeight(traj, i) > 2500

\* C18: grasp variant, lift phase - the lift tick after which the target
\* is above 0.8 or the end effector above 2.5 is the last one of that
\* grasp (no lift command and no tick follows it), and when neither
\* cutoff is ever exceeded the lift runs exactly anim_length = 100 ticks
C18_LiftStopsAtCutoff ==
    GraspRan =>
        /\ \A i \in 1..(ret.lift_ticks - 1) : ~CutoffExceeded(ret.traj, i)
        /\ ret.lift_ticks < anim_length =>
              CutoffExceeded(ret.traj, ret.lift_ticks)
        /\ (\A i \in 1..anim_length : ~CutoffExceeded(ret.traj, i)) =>
              ret.lift_ticks = 100
        /\ Len(ret.anim) = ret.close_ticks + ret.lift_ticks

C18_Witness ==
    /\ GraspRan
    /\ ret.lift_ticks = 37
    /\ EffectorHeight(ret.traj, 37) > 2500
    /\ EffectorHeight(ret.traj, 36) <= 2500
    /\ BlockHeight(ret.traj, 37) <= 800
    /\ Len(ret.anim) = 137

\* the distances of the observation the step returns, in ticks
ReturnedHorizontal == get_horizontal_distance_to_target(observation)
ReturnedDistance == get_distance_to_target(observation)

\* C19: grasp variant, dense mode - the reward of a step is -10*h - 10
\* when the horizontal distance h is above 0.025 and -10*d (d the 3-D
\* distance) when h <= 0.025, plus 10000 exactly when the step's
\* is_success is true; h and d are those of the observation the step
\* returns (re-read after a grasp animation). Rewards are in units of
\* 1/Metre
C19_DenseReward ==
    (GraspStepped /\ reward_type = "dense") =>
        ret.reward =
            (IF ReturnedHorizontal > 25 * Scale
             THEN -(10 * ReturnedHorizontal) - 10 * Metre
             ELSE -(10 * ReturnedDistance))
            + (IF ret.is_success THEN 10000 * Metre ELSE 0)

C19_Witness ==
    /\ GraspStepped
    /\ reward_type = "dense"
    /\ ReturnedHorizontal = 25 * Scale
    /\ ReturnedDistance > ReturnedHorizontal
    /\ ret.reward = -(10 * ReturnedDistance)
    /\ ~ret.is_success

\* C20: grasp variant - step_counter equals the number of step() calls
\* that ran since the last reset(): reset() sets it to 0 and each step()
\* applies the agent command once with one physics tick and adds exactly
\* 1, whatever action_repeat_amount is and whether or not the step also
\* runs the grasp animation (whose ticks are not counted)
C20_CounterCountsSteps ==
    [][ variant = "grasp" =>
          /\ env_step_counter' = hist'.calls
          /\ ret'.op = "reset" => env_step_counter' = 0
          /\ ret'.op = "raise" => UNCHANGED env_step_counter
          /\ ret'.op = "step" =>
                /\ env_step_counter' = env_step_counter + 1
                /\ ret'.agent_ticks = 1
                /\ Len(ret'.command) = 7 ]_vars

C20_Witness ==
    /\ GraspRan
    /\ action_repeat_amount = 3
    /\ Len(ret.anim) >= 101
    /\ ret.agent_ticks = 1
    /\ env_step_counter = 2
    /\ hist.calls = 2

\* C21: reset() called in any state (mid-episode, after done, after a
\* grasp) leaves step_counter = 0, attempted_grasp = false and the success
\* flag = false, and leaves episode_number, grasp_attempts_count and
\* successful_grasp_count as they were before the call (both variants)
C21_ResetFrame ==
    [][ /\ (variant = "grasp" /\ ret'.op = "reset") =>
              /\ env_step_counter' = 0
              /\ attempted_grasp' = FALSE
              /\ is_successful_grasp' = FALSE
              /\ UNCHANGED <<episode_number, grasp_attempts_count,
                             successful_grasp_count>>
        /\ (variant = "her" /\ her_ret'.op = "reset") =>
              /\ her_env_step_counter' = 0
              /\ her_attempted_grasp' = FALSE
              /\ her_successful_grasp' = FALSE
              /\ UNCHANGED <<her_episode_number, her_grasp_attempts_count,
                             her_successful_grasp_count>> ]_vars

C21_Witness ==
    /\ variant = "grasp"
    /\ ret.op = "reset"
    /\ successful_grasp_count = 1
    /\ grasp_attempts_count = 1
    /\ episode_number = 2
    /\ env_step_counter = 0
    /\ ~attempted_grasp
    /\ ~is_successful_grasp

\* C22: HER variant - for every action_repeat_amount >= 1 and
\* max_step_count >= 0 and over any sequence of step() calls, step_counter
\* never exceeds max_step_count, one step() raises it by at most
\* action_repeat_amount, and once a grasp was attempted or the limit is
\* reached a step() no longer raises it
C22_HerCounterBounded ==
    [][ variant = "her" =>
          /\ her_env_step_counter' <= her_max_step_count'
          /\ her_ret'.op = "step" =>
                /\ her_env_step_counter' >= her_env_step_counter
                /\ her_env_step_counter' - her_env_step_counter
                      <= her_action_repeat_amount
                /\ (\/ her_attempted_grasp
                    \/ her_env_step_counter >= her_max_step_count)
                      => UNCHANGED her_env_step_counter ]_vars

C22_Witness ==
    /\ variant = "her"
    /\ her_ret.op = "step"
    /\ her_action_repeat_amount = 3
    /\ her_max_step_count = 2
    /\ her_env_step_counter = 2

\* C23: grasp variant - between two consecutive reset() calls the grasp
\* animation runs at most once: over any sequence of step() calls of one
\* episode, those after done = true included, grasp_attempts_count grows
\* by at most 1
C23_OneGraspPerEpisode ==
    variant = "grasp" => grasp_attempts_count - hist.attempts <= 1

\* the caller has called reset() after every step() that returned done
\* before stepping again
ResetAfterEveryDone == ~hist.stepped_after_done

\* C24: grasp variant - for a caller that resets after every done,
\* successful_grasp_count <= grasp_attempts_count in every reachable
\* state: a success is only counted in an episode in which an attempt was
\* counted first
C24_SuccessesWithinAttempts ==
    (variant = "grasp" /\ ResetAfterEveryDone) =>
        /\ successful_grasp_count <= grasp_attempts_count
        /\ is_successful_grasp =>
              (attempted_grasp /\ grasp_attempts_count = hist.attempts + 1)

C24_Witness ==
    /\ GraspStepped
    /\ ResetAfterEveryDone
    /\ successful_grasp_count = 2
    /\ grasp_attempts_count = 2
    /\ episode_number = 3
    /\ ret.is_success

====
